---- MODULE Spec2Model ----
(***************************************************************************)
(* Model of the "Simple Indexing in a LevelUP Store" example               *)
(* (src/Simple-Index.md): the key encoding, the write path putPost with    *)
(* its advisory lock, and the two queries postsBy and oldestPosts, over an *)
(* ordered key-value store with point reads, atomic batches and range      *)
(* scans.                                                                  *)
(*                                                                         *)
(* Strings that take part in keys (slug, author, date) are sequences of    *)
(* ASCII character codes, so that escaping and the store's key order are   *)
(* computed rather than assumed.  Payload strings (title, text) are plain  *)
(* TLA+ strings.                                                           *)
(***************************************************************************)
EXTENDS Integers, Sequences, FiniteSets, TLC

(***************************************************************************)
(* Characters and strings                                                  *)
(***************************************************************************)

\* ASCII codes of the characters the model writes
Ascii ==
  "!" :> 33 @@ "%" :> 37 @@ "-" :> 45 @@ "/" :> 47 @@
  "0" :> 48 @@ "1" :> 49 @@ "2" :> 50 @@ "3" :> 51 @@ "6" :> 54 @@
  "F" :> 70 @@
  "a" :> 97 @@ "b" :> 98 @@ "d" :> 100 @@ "e" :> 101 @@ "n" :> 110 @@
  "o" :> 111 @@ "p" :> 112 @@ "s" :> 115 @@ "t" :> 116 @@ "y" :> 121 @@
  "~" :> 126

\* the string whose characters are named by the sequence cs
Str(cs) == [i \in 1..Len(cs) |-> Ascii[cs[i]]]

\* JavaScript's string order (by code unit): a < b
StrLess(a, b) ==
  LET differ == {i \in 1..Len(a) : i <= Len(b) /\ a[i] # b[i]}
  IN IF differ = {}
     THEN Len(a) < Len(b)
     ELSE LET first == CHOOSE i \in differ : \A j \in differ : i <= j
          IN a[first] < b[first]

StrLeq(a, b) == a = b \/ StrLess(a, b)

(***************************************************************************)
(* Key encoding: options.keyEncoding                                       *)
(***************************************************************************)

\* the characters encodeURIComponent leaves as they are:
\* A-Z a-z 0-9 - _ . ! ~ * ' ( )
Unreserved(c) ==
  \/ c \in 65..90
  \/ c \in 97..122
  \/ c \in 48..57
  \/ c \in {45, 95, 46, 33, 126, 42, 39, 40, 41}

\* upper-case hexadecimal digit of n, 0 <= n < 16, as a character code
HexDigit(n) == IF n < 10 THEN 48 + n ELSE 55 + n

\* value of a hexadecimal digit character, or -1
HexValue(c) ==
  IF c \in 48..57 THEN c - 48
  ELSE IF c \in 65..70 THEN c - 55
  ELSE IF c \in 97..102 THEN c - 87
  ELSE -1

\* encodeURIComponent on an ASCII string
RECURSIVE encodeURIComponent(_)
encodeURIComponent(s) ==
  IF s = <<>> THEN <<>>
  ELSE (IF Unreserved(Head(s))
        THEN <<Head(s)>>
        ELSE <<37, HexDigit(Head(s) \div 16), HexDigit(Head(s) % 16)>>)
       \o encodeURIComponent(Tail(s))

\* the value decode gives where decodeURIComponent throws URIError
URIError == <<-1>>

\* decodeURIComponent on an ASCII string; URIError for a malformed escape
RECURSIVE decodeURIComponent(_)
decodeURIComponent(s) ==
  IF s = <<>> THEN <<>>
  ELSE IF Head(s) # 37
       THEN LET rest == decodeURIComponent(Tail(s))
            IN IF rest = URIError THEN URIError ELSE <<Head(s)>> \o rest
       ELSE IF Len(s) < 3 \/ HexValue(s[2]) < 0 \/ HexValue(s[3]) < 0
                          \/ HexValue(s[2]) >= 8
            THEN URIError
            ELSE LET rest == decodeURIComponent(SubSeq(s, 4, Len(s)))
                 IN IF rest = URIError
                    THEN URIError
                    ELSE <<16 * HexValue(s[2]) + HexValue(s[3])>> \o rest

\* Array.prototype.join('/') of a sequence of strings
RECURSIVE Join(_)
Join(parts) ==
  IF parts = <<>> THEN <<>>
  ELSE IF Len(parts) = 1 THEN parts[1]
  ELSE parts[1] \o <<47>> \o Join(Tail(parts))

\* String.prototype.split('/'): always at least one part
RECURSIVE Split(_)
Split(s) ==
  IF \A i \in 1..Len(s) : s[i] # 47 THEN <<s>>
  ELSE LET i == CHOOSE j \in 1..Len(s) :
                  s[j] = 47 /\ \A k \in 1..(j - 1) : s[k] # 47
       IN <<SubSeq(s, 1, i - 1)>> \o Split(SubSeq(s, i + 1, Len(s)))

\* keyEncoding.encode: argument.map(encodeURIComponent).join('/')
encode(argument) ==
  Join([i \in 1..Len(argument) |-> encodeURIComponent(argument[i])])

\* keyEncoding.decode: argument.split('/').map(decodeURIComponent)
decode(argument) ==
  LET parts == Split(argument)
  IN [i \in 1..Len(parts) |-> decodeURIComponent(parts[i])]

(***************************************************************************)
(* Bounds and data                                                         *)
(***************************************************************************)

\* number of putPost calls of one run
MaxCalls == 3

\* largest howMany passed to oldestPosts
MaxLimit == 3

\* number of putPost calls made while queries run
MaxQueryPuts == 1

ana == Str(<<"a", "n", "a">>)
bob == Str(<<"b", "o", "b">>)
jan1 == Str(<<"2", "0", "1", "6", "-", "0", "1", "-", "0", "1">>)
jan2 == Str(<<"2", "0", "1", "6", "-", "0", "1", "-", "0", "2">>)
jan3 == Str(<<"2", "0", "1", "6", "-", "0", "1", "-", "0", "3">>)

\* the three posts of the example
firstByAna ==
  [title |-> "Ana's First Post", date |-> jan1, author |-> ana,
   slug |-> Str(<<"a", "n", "a", "-", "1">>), text |-> "Posted!"]

secondByBob ==
  [title |-> "Bob, Too!", date |-> jan2, author |-> bob,
   slug |-> Str(<<"b", "o", "b", "-", "1">>), text |-> "Bob write!"]

thirdByAna ==
  [title |-> "Ana's Second Post", date |-> jan3, author |-> ana,
   slug |-> Str(<<"a", "n", "a", "-", "2">>), text |-> "More Ana."]

\* a different post that reuses the slug of firstByAna
rivalOfFirst ==
  [title |-> "Bob's Take", date |-> jan2, author |-> bob,
   slug |-> Str(<<"a", "n", "a", "-", "1">>), text |-> "Mine!"]

\* a post of the same author and day as firstByAna whose slug holds the
\* key separator
slashByAna ==
  [title |-> "Ana / One", date |-> jan1, author |-> ana,
   slug |-> Str(<<"a", "n", "a", "/", "1">>), text |-> "Slashed."]

\* a post whose slug begins with the range sentinel
tildeByAna ==
  [title |-> "Ana ~", date |-> jan3, author |-> ana,
   slug |-> Str(<<"~", "a", "n", "a">>), text |-> "Tilde."]

\* the posts callers pass to putPost
Posts ==
  {firstByAna, secondByBob, thirdByAna, rivalOfFirst, slashByAna, tildeByAna}

\* the author names callers pass to postsBy
Authors == {ana, bob}

Slugs == {p.slug : p \in Posts}

(***************************************************************************)
(* The store: level (memdown behind levelup), keys kept in encoded form    *)
(***************************************************************************)

\* the value '' of an index placeholder, as a JSON value
EmptyString == [string |-> <<>>]

\* one key for every post, whatever its slug
PostKeyWithoutSlug(slug) == <<Str(<<"p", "o", "s", "t", "s">>)>>

\* var postKey = [ 'posts', post.slug ]
PostKey(slug) == <<Str(<<"p", "o", "s", "t", "s">>), slug>>

\* [ 'by', post.author, post.slug ]
ByKey(author, slug) == <<Str(<<"b", "y">>), author, slug>>

\* the key of the date index record under the namespace of the author index
DateKeyCopied(date, slug) == <<Str(<<"b", "y">>), date, slug>>

\* [ 'date', post.date, post.slug ]
DateKey(date, slug) == <<Str(<<"d", "a", "t", "e">>), date, slug>>

\* the whole post as the value of the date index record, text included
DateValueWithText(post) == post

\* the value of the date index record
DateValue(post) ==
  [title |-> post.title, date |-> post.date,
   author |-> post.author, slug |-> post.slug]

\* the batch without the put of the date index record
BatchWithoutDateIndex(post) ==
  << [type |-> "put", key |-> ByKey(post.author, post.slug),
      value |-> EmptyString],
     [type |-> "put", key |-> PostKey(post.slug), value |-> post] >>

\* the batch with a placeholder as the value of the date index record too
BatchOfPlaceholders(post) ==
  << [type |-> "put", key |-> ByKey(post.author, post.slug),
      value |-> EmptyString],
     [type |-> "put", key |-> DateKey(post.date, post.slug),
      value |-> EmptyString],
     [type |-> "put", key |-> PostKey(post.slug), value |-> post] >>

\* var batch = [ ... ]: the three put operations, primary record last
Batch(post) ==
  << [type |-> "put", key |-> ByKey(post.author, post.slug),
      value |-> EmptyString],
     [type |-> "put", key |-> DateKey(post.date, post.slug),
      value |-> DateValue(post)],
     [type |-> "put", key |-> PostKey(post.slug), value |-> post] >>

\* level.put of one operation on the contents st
RECURSIVE ApplyOps(_, _)
ApplyOps(st, ops) ==
  IF ops = <<>> THEN st
  ELSE LET k == encode(Head(ops).key)
           put == [x \in (DOMAIN st) \cup {k} |->
                     IF x = k THEN Head(ops).value ELSE st[x]]
       IN ApplyOps(put, Tail(ops))

\* the operations put one after the other: those before a failure stay
ApplyOneByOne(st, ops, ok) ==
  IF ok THEN ApplyOps(st, ops) ELSE ApplyOps(st, <<Head(ops)>>)

\* level.batch: all operations applied, or (on a store failure) none
ApplyBatch(st, ops, ok) == IF ok THEN ApplyOps(st, ops) ELSE st

\* level.exists(key): whether the store holds a record at key
Exists(st, key) == encode(key) \in DOMAIN st

\* the encoded keys of S in the store's order, ascending
RECURSIVE SortKeys(_)
SortKeys(S) ==
  IF S = {} THEN <<>>
  ELSE LET least == CHOOSE k \in S : \A j \in S : StrLeq(k, j)
       IN <<least>> \o SortKeys(S \ {least})

Reverse(q) == [i \in 1..Len(q) |-> q[Len(q) + 1 - i]]

\* the first limit elements of q; a limit of -1 is no limit
Limit(q, limit) ==
  IF limit = -1 \/ limit >= Len(q) THEN q ELSE SubSeq(q, 1, limit)

\* level.createReadStream(options): the 'data' events of the stream, in
\* order: the records with gte <= key <= lte in key order, from the
\* greatest key down when reverse is set, at most limit of them; each is
\* the decoded key, the value, or both
createReadStream(st, options) ==
  LET lower == encode(options.gte)
      upper == encode(options.lte)
      inRange == {k \in DOMAIN st : StrLeq(lower, k) /\ StrLeq(k, upper)}
      ascending == SortKeys(inRange)
      ordered == IF options.reverse THEN Reverse(ascending) ELSE ascending
      found == Limit(ordered, options.limit)
  IN [i \in 1..Len(found) |->
        IF options.keys /\ ~options.values THEN decode(found[i])
        ELSE IF options.values /\ ~options.keys THEN st[found[i]]
        ELSE [key |-> decode(found[i]), value |-> st[found[i]]]]

\* the contents of a store into which exactly the posts of S were put
RECURSIVE StoreOf(_)
StoreOf(S) ==
  IF S = {} THEN <<>>
  ELSE LET p == CHOOSE x \in S : TRUE
       IN ApplyOps(StoreOf(S \ {p}), Batch(p))

(***************************************************************************)
(* The advisory lock table: level-lock, write mode                         *)
(***************************************************************************)

\* lock(level, key, 'r'): read locks are shared, any number is granted
lockShared(held, key) == [granted |-> TRUE, locks |-> held \cup {key}]

\* a lock that, when it finds key held, refuses and frees the key
lockBreaking(held, key) ==
  IF key \in held
  THEN [granted |-> FALSE, locks |-> held \ {key}]
  ELSE [granted |-> TRUE, locks |-> held \cup {key}]

\* lock(level, key, 'w'): an unlock function while no lock is held on key,
\* nothing otherwise
lock(held, key) ==
  IF key \in held
  THEN [granted |-> FALSE, locks |-> held]
  ELSE [granted |-> TRUE, locks |-> held \cup {key}]

\* an unlock() that frees every key of the lock table
unlockAll(held, key) == {}

\* unlock(): the function lock returned
unlock(held, key) == held \ {key}

(***************************************************************************)
(* State                                                                   *)
(***************************************************************************)

VARIABLES
  store,   \* the records of level: encoded key -> value
  locks,   \* the keys on which a write lock is held
  calls,   \* the putPost calls made so far, in the order they were made
  query,   \* the postsBy or oldestPosts call under way, or the last one
  codec    \* the keys handed to keyEncoding and what it made of them

vars == <<store, locks, calls, query, codec>>

\* the errors putPost passes to its callback; "null" is success
Conflict == "Conflict"
SlugTaken == "Slug already taken"
IOError == "IOError"

\* a call between its lock acquisition and its callback
InFlight(call) == call.acquired /\ call.pc # "done"

\* the calls that are in flight on slug
InFlightOn(slug) ==
  {d \in 1..Len(calls) : calls[d].post.slug = slug /\ InFlight(calls[d])}

\* callback() with the error dropped
CallbackWithoutError(call, error) ==
  [call EXCEPT !.pc = "done", !.err = "null", !.callbacks = @ + 1]

\* callback(error) of a call
Callback(call, error) ==
  [call EXCEPT !.pc = "done", !.err = error, !.callbacks = @ + 1]

\* no query has been made
NoQuery ==
  [pc |-> "idle", kind |-> "none", name |-> <<>>, howMany |-> 0,
   snapshot |-> <<>>, items |-> <<>>, pending |-> {}, results |-> <<>>,
   err |-> "none"]

\* keyEncoding has not been handed a key
NoCodec ==
  [pc |-> "idle", A |-> <<>>, B |-> <<>>, encodedA |-> <<>>,
   encodedB |-> <<>>, decodedA |-> <<>>]

Init ==
  /\ store = <<>>
  /\ locks = {}
  /\ calls = <<>>
  /\ query = NoQuery
  /\ codec = NoCodec

(***************************************************************************)
(* putPost                                                                 *)
(***************************************************************************)

\* putPost(level, post, callback), up to its first asynchronous request:
\* take the lock, and call back with Conflict or ask the store whether the
\* slug exists
PutPostStart(post) ==
  /\ Len(calls) < MaxCalls
  /\ LET postKey == PostKey(post.slug)
         got == lock(locks, postKey)
         call == [post |-> post, pc |-> "exists", err |-> "none",
                  acquired |-> got.granted, unlocks |-> 0,
                  callbacks |-> 0,
                  applied |-> FALSE, batchError |-> "none",
                  rivals |-> InFlightOn(post.slug),
                  existed |-> Exists(store, postKey)]
     IN /\ locks' = got.locks
        /\ calls' = Append(calls, IF got.granted
                                  THEN call
                                  ELSE Callback(call, Conflict))
  /\ UNCHANGED <<store, query, codec>>

\* a callback of level.exists that does not look at exists
ExistsCallbackBlind(c, error) ==
  /\ calls[c].pc = "exists"
  /\ LET call == calls[c]
     IN calls' = [calls EXCEPT ![c] =
          IF error
          THEN Callback(call, IOError)
          ELSE [call EXCEPT !.pc = "batch"]]
  /\ UNCHANGED <<store, locks, query, codec>>

\* a callback of level.exists without the else after callback(error): the
\* call goes on to its batch
ExistsCallbackFallingThrough(c, error) ==
  /\ calls[c].pc = "exists"
  /\ LET call == calls[c]
     IN calls' = [calls EXCEPT ![c] =
          IF error
          THEN [Callback(call, IOError) EXCEPT !.pc = "batch"]
          ELSE IF Exists(store, PostKey(call.post.slug))
               THEN Callback(call, SlugTaken)
               ELSE [call EXCEPT !.pc = "batch"]]
  /\ UNCHANGED <<store, locks, query, codec>>

\* the callback of level.exists: a store error and an existing slug are
\* passed on, otherwise the batch is built and submitted
ExistsCallback(c, error) ==
  /\ calls[c].pc = "exists"
  /\ LET call == calls[c]
     IN calls' = [calls EXCEPT ![c] =
          IF error
          THEN Callback(call, IOError)
          ELSE IF Exists(store, PostKey(call.post.slug))
               THEN Callback(call, SlugTaken)
               ELSE [call EXCEPT !.pc = "batch"]]
  /\ UNCHANGED <<store, locks, query, codec>>

\* the store carries out level.batch: every put of the batch or, on a
\* failure, none
BatchApply(c, ok) ==
  /\ calls[c].pc = "batch"
  /\ store' = ApplyBatch(store, Batch(calls[c].post), ok)
  /\ calls' = [calls EXCEPT ![c].pc = "batched",
                            ![c].applied = ok,
                            ![c].batchError = IF ok THEN "null" ELSE IOError]
  /\ UNCHANGED <<locks, query, codec>>

\* the callback of level.batch: unlock(), then callback(error)
BatchCallback(c) ==
  /\ calls[c].pc = "batched"
  /\ locks' = unlock(locks, PostKey(calls[c].post.slug))
  /\ calls' = [calls EXCEPT ![c] =
       Callback([calls[c] EXCEPT !.unlocks = @ + 1], calls[c].batchError)]
  /\ UNCHANGED <<store, query, codec>>

(***************************************************************************)
(* postsBy and oldestPosts                                                 *)
(***************************************************************************)

NotFound == "NotFound"

\* the range sentinel '~'
Sentinel == Str(<<"~">>)

\* the options of postsBy
PostsByOptions(name) ==
  [gte |-> ByKey(name, <<>>), lte |-> ByKey(name, Sentinel),
   keys |-> TRUE, values |-> FALSE, limit |-> -1, reverse |-> FALSE]

\* the options of oldestPosts
OldestPostsOptions(howMany) ==
  [gte |-> <<Str(<<"d", "a", "t", "e">>), <<>>>>,
   lte |-> <<Str(<<"d", "a", "t", "e">>), Sentinel>>,
   keys |-> FALSE, values |-> TRUE, limit |-> howMany, reverse |-> TRUE]

\* postsBy(level, name, callback): open the key stream; its 'data' events
\* push key[2], the slug, of every index key
PostsByStart(name) ==
  /\ query.pc = "idle"
  /\ LET keys == createReadStream(store, PostsByOptions(name))
     IN query' = [NoQuery EXCEPT !.pc = "streaming", !.kind = "postsBy",
                                 !.name = name, !.snapshot = store,
                                 !.items = [i \in 1..Len(keys) |-> keys[i][3]]]
  /\ UNCHANGED <<store, locks, calls, codec>>

\* oldestPosts(level, howMany, callback): open the value stream; its
\* 'data' events push every value
OldestPostsStart(howMany) ==
  /\ query.pc = "idle"
  /\ query' = [NoQuery EXCEPT
       !.pc = "streaming", !.kind = "oldestPosts", !.howMany = howMany,
       !.snapshot = store,
       !.items = createReadStream(store, OldestPostsOptions(howMany))]
  /\ UNCHANGED <<store, locks, calls, codec>>

\* .once('error', callback) of either stream
StreamError ==
  /\ query.pc = "streaming"
  /\ query' = [query EXCEPT !.pc = "done", !.err = IOError]
  /\ UNCHANGED <<store, locks, calls, codec>>

\* an 'end' handler that locks every post before it reads it
PostsByEndLocking ==
  /\ query.pc = "streaming"
  /\ query.kind = "postsBy"
  /\ query' = IF query.items = <<>>
              THEN [query EXCEPT !.pc = "done", !.err = "null"]
              ELSE [query EXCEPT !.pc = "fanout",
                                 !.pending = 1..Len(query.items)]
  /\ locks' = locks \cup {PostKey(query.items[i]) : i \in 1..Len(query.items)}
  /\ UNCHANGED <<store, calls, codec>>

\* 'end' of the key stream of postsBy: map(slugs, getPost, callback) asks
\* for every post at once, and calls back at once when there is none
PostsByEnd ==
  /\ query.pc = "streaming"
  /\ query.kind = "postsBy"
  /\ query' = IF query.items = <<>>
              THEN [query EXCEPT !.pc = "done", !.err = "null"]
              ELSE [query EXCEPT !.pc = "fanout",
                                 !.pending = 1..Len(query.items)]
  /\ UNCHANGED <<store, locks, calls, codec>>

\* a fan-out that passes over a post the store does not find
GetCallbackSkipping(i, error) ==
  /\ query.pc = "fanout"
  /\ i \in query.pending
  /\ LET key == PostKey(query.items[i])
         got == IF Exists(store, key)
                THEN [j \in (DOMAIN query.results) \cup {i} |->
                        IF j = i THEN store[encode(key)]
                        ELSE query.results[j]]
                ELSE query.results
     IN query' =
          IF error THEN [query EXCEPT !.pc = "done", !.err = IOError]
          ELSE IF query.pending = {i}
               THEN [query EXCEPT !.pc = "done", !.err = "null",
                                  !.pending = {}, !.results = got]
               ELSE [query EXCEPT !.pending = @ \ {i}, !.results = got]
  /\ UNCHANGED <<store, locks, calls, codec>>

\* the callback of the i-th level.get of the fan-out: map keeps the post
\* at position i, calls back with the first error, and calls back with
\* all the posts once the last one is in
GetCallback(i, error) ==
  /\ query.pc = "fanout"
  /\ i \in query.pending
  /\ LET key == PostKey(query.items[i])
     IN query' =
          IF error THEN [query EXCEPT !.pc = "done", !.err = IOError]
          ELSE IF ~Exists(store, key)
               THEN [query EXCEPT !.pc = "done", !.err = NotFound]
               ELSE LET got == [j \in (DOMAIN query.results) \cup {i} |->
                                  IF j = i THEN store[encode(key)]
                                  ELSE query.results[j]]
                    IN IF query.pending = {i}
                       THEN [query EXCEPT !.pc = "done", !.err = "null",
                                          !.pending = {}, !.results = got]
                       ELSE [query EXCEPT !.pending = @ \ {i},
                                          !.results = got]
  /\ UNCHANGED <<store, locks, calls, codec>>

\* 'end' of the value stream of oldestPosts: callback(null, values)
OldestPostsEnd ==
  /\ query.pc = "streaming"
  /\ query.kind = "oldestPosts"
  /\ query' = [query EXCEPT !.pc = "done", !.err = "null",
                            !.results = query.items]
  /\ UNCHANGED <<store, locks, calls, codec>>

(***************************************************************************)
(* Specifications                                                          *)
(***************************************************************************)

\* the posts the write path is run on
PutPosts == {firstByAna, rivalOfFirst, secondByBob, slashByAna}

\* the write path: putPost calls, interleaved in every way
Next ==
  \/ \E post \in PutPosts : PutPostStart(post)
  \/ \E c \in 1..Len(calls), error \in BOOLEAN : ExistsCallback(c, error)
  \/ \E c \in 1..Len(calls), ok \in BOOLEAN : BatchApply(c, ok)
  \/ \E c \in 1..Len(calls) : BatchCallback(c)

Spec == Init /\ [][Next]_vars

\* the sets of posts that can be stored together
Storable == {S \in SUBSET Posts : \A p, q \in S : p.slug = q.slug => p = q}

\* the posts put while a query runs
QueryPutPosts == {firstByAna, secondByBob}

\* the queries start from any store putPost can have filled
InitQuery ==
  /\ \E S \in Storable : store = StoreOf(S)
  /\ locks = {}
  /\ calls = <<>>
  /\ query = NoQuery
  /\ codec = NoCodec

\* a putPost call made beside a query
QueryPutStart(post) == Len(calls) < MaxQueryPuts /\ PutPostStart(post)

\* the read path: queries, with putPost calls running beside them
NextQuery ==
  \/ \E name \in Authors : PostsByStart(name)
  \/ \E howMany \in 0..MaxLimit : OldestPostsStart(howMany)
  \/ StreamError
  \/ PostsByEnd
  \/ \E i \in query.pending, error \in BOOLEAN : GetCallback(i, error)
  \/ OldestPostsEnd
  \/ \E post \in QueryPutPosts : QueryPutStart(post)
  \/ \E c \in 1..Len(calls), error \in BOOLEAN : ExistsCallback(c, error)
  \/ \E c \in 1..Len(calls), ok \in BOOLEAN : BatchApply(c, ok)
  \/ \E c \in 1..Len(calls) : BatchCallback(c)

SpecQuery == InitQuery /\ [][NextQuery]_vars

(***************************************************************************)
(* Properties of the write path                                            *)
(***************************************************************************)

Started == 1..Len(calls)

Done(c) == calls[c].pc = "done"

Succeeded(c) == Done(c) /\ calls[c].err = "null"

\* the store holds exactly the posts of the calls whose batch was applied:
\* the contents InitQuery starts from are those the write path produces
StoreIsStoreOfApplied ==
  store = StoreOf({calls[c].post : c \in {d \in Started : calls[d].applied}})

\* the three encoded keys under which a post is stored
KeysOf(post) ==
  {encode(PostKey(post.slug)), encode(ByKey(post.author, post.slug)),
   encode(DateKey(post.date, post.slug))}

\* C1, first half: of the calls made for one slug, at most one has had its
\* batch applied
AtMostOneBatchPerSlug ==
  \A c, d \in Started :
    (c # d /\ calls[c].post.slug = calls[d].post.slug)
      => ~(calls[c].applied /\ calls[d].applied)

\* C1, second half: a step never removes a stored record nor changes its
\* value
RecordsKept ==
  \A k \in DOMAIN store : k \in DOMAIN store' /\ store'[k] = store[k]

\* C1: slug uniqueness. Over any number of putPost calls, interleaved in
\* any way, at most one call per slug applies its batch, and once the
\* records of a slug are stored no later putPost overwrites or changes any
\* of them.
C1_SlugUniqueness == [] AtMostOneBatchPerSlug /\ [][RecordsKept]_vars

\* C1 witness: a post is stored and a later call with a different post of
\* the same slug has been turned away
C1_Witness ==
  \E c, d \in Started :
    /\ c < d
    /\ calls[c].post.slug = calls[d].post.slug
    /\ calls[c].post # calls[d].post
    /\ Succeeded(c)
    /\ Done(d) /\ calls[d].err = SlugTaken
    /\ store[encode(PostKey(calls[c].post.slug))] = calls[c].post

\* the pairs <<c, d>> of calls for one slug where d was made before c had
\* called back
Overlapping ==
  {pair \in Started \X Started : pair[1] \in calls[pair[2]].rivals}

\* C2 as stated: of two calls for one slug, the second made before the
\* first has called back, exactly one calls back with success and the
\* other with 'Conflict' or 'Slug already taken'.
C2_ExactlyOneSucceeds ==
  \A pair \in Overlapping :
    LET c == pair[1]
        d == pair[2]
    IN (Done(c) /\ Done(d)) =>
         \/ Succeeded(c) /\ calls[d].err \in {Conflict, SlugTaken}
         \/ Succeeded(d) /\ calls[c].err \in {Conflict, SlugTaken}

\* C2 as amended: the second call has called back with 'Conflict' as soon
\* as it is made and so never succeeds; the first call calls back with
\* success exactly when its batch was applied, and otherwise with 'Slug
\* already taken' (the slug had a record when the call was made) or with
\* the store's error.
C2_SecondConflictsFirstDecides ==
  \A pair \in Overlapping :
    LET c == pair[1]
        d == pair[2]
    IN /\ calls[c].post.slug = calls[d].post.slug
       /\ Done(d) /\ calls[d].err = Conflict /\ ~calls[d].applied
       /\ Done(c) =>
            /\ calls[c].err \in {"null", SlugTaken, IOError}
            /\ Succeeded(c) <=> calls[c].applied
            /\ calls[c].err = SlugTaken => calls[c].existed
            /\ (~calls[c].existed /\ calls[c].err # IOError) => Succeeded(c)

\* C2 witness: two overlapping calls with different posts of one slug have
\* both called back, the first with success
C2_Witness ==
  \E pair \in Overlapping :
    /\ calls[pair[1]].post # calls[pair[2]].post
    /\ Succeeded(pair[1])
    /\ Done(pair[2])

\* C3 as stated: every call that acquired the lock has released it exactly
\* once by the time it has called back, on every exit path, so that no
\* lock is held on a slug for which no putPost is in flight.
C3_LockAlwaysReleased ==
  /\ \A c \in Started :
       (Done(c) /\ calls[c].acquired) => calls[c].unlocks = 1
  /\ \A slug \in Slugs :
       InFlightOn(slug) = {} => PostKey(slug) \notin locks

\* the decoded keys of the records of the store
DecodedKeys == {decode(k) : k \in DOMAIN store}

\* the keys of the primary records among the decoded keys
PrimaryKeysIn(keys) ==
  {k \in keys : k[1] = Str(<<"p", "o", "s", "t", "s">>)}

\* the keys of namespace ns that end in slug among the decoded keys
IndexKeysIn(keys, ns, slug) ==
  {k \in keys : Len(k) = 3 /\ k[1] = ns /\ k[3] = slug}

\* C4: in every reachable state of the store, failed batches included, a
\* primary record ['posts', slug] exists if and only if exactly one
\* ['by', *, slug] record and exactly one ['date', *, slug] record exist;
\* no index record lacks its primary record, and the store holds exactly
\* three key-value pairs per stored post.
C4_IndexesMatchPrimaries ==
  LET keys == DecodedKeys
      primaries == PrimaryKeysIn(keys)
  IN /\ \A k \in DOMAIN store : encode(decode(k)) = k
     /\ \A k \in keys :
          \/ k \in primaries /\ Len(k) = 2
          \/ Len(k) = 3 /\ k[1] \in {Str(<<"b", "y">>),
                                     Str(<<"d", "a", "t", "e">>)}
     /\ \A k \in keys :
          LET slug == k[Len(k)]
          IN /\ PostKey(slug) \in primaries
             /\ Cardinality(IndexKeysIn(keys, Str(<<"b", "y">>), slug)) = 1
             /\ Cardinality(
                  IndexKeysIn(keys, Str(<<"d", "a", "t", "e">>), slug)) = 1
     /\ Cardinality(DOMAIN store) = 3 * Cardinality(primaries)

\* C4 witness: two posts are stored, one of them with the key separator in
\* its slug, and the batch of another call has failed
C4_Witness ==
  /\ Cardinality(PrimaryKeysIn(DecodedKeys)) = 2
  /\ PostKey(slashByAna.slug) \in DecodedKeys
  /\ \E c \in Started : Done(c) /\ calls[c].batchError = IOError

\* C5: once putPost(post) has called back without error, the record at
\* ['posts', post.slug] is that very post, the record at
\* ['by', post.author, post.slug] is the empty placeholder and the record
\* at ['date', post.date, post.slug] is {title, date, author, slug} of that
\* post, in that state and in every later one.
C5_StoredAsPut ==
  \A c \in Started :
    Succeeded(c) =>
      LET post == calls[c].post
          primary == encode(PostKey(post.slug))
          byAuthor == encode(ByKey(post.author, post.slug))
          byDate == encode(DateKey(post.date, post.slug))
      IN /\ {primary, byAuthor, byDate} \subseteq DOMAIN store
         /\ store[primary] = post
         /\ store[byAuthor] = [string |-> <<>>]
         /\ store[byDate] = [title |-> post.title, date |-> post.date,
                             author |-> post.author, slug |-> post.slug]

\* C5 witness: a call has succeeded and a later call with another post of
\* the same slug has called back
C5_Witness ==
  \E c, d \in Started :
    /\ Succeeded(c)
    /\ Done(d)
    /\ c # d
    /\ calls[c].post.slug = calls[d].post.slug
    /\ calls[c].post # calls[d].post

\* the batch of call c has failed and its callback has not run yet
BatchFailed(c) == calls[c].pc = "batched" /\ calls[c].batchError = IOError

\* C6, as a step: the step in which the batch of a call fails leaves the
\* store as it was, and the step in which that call then calls back passes
\* the store's error on, leaves the lock free and the store untouched, with
\* none of the three records of the post in it
BatchFailureStep ==
  \A c \in Started :
    /\ (calls[c].pc = "batch" /\ calls'[c].pc = "batched"
                              /\ calls'[c].batchError = IOError)
         => store' = store
    /\ (BatchFailed(c) /\ calls'[c].pc = "done")
         => /\ calls'[c].err = calls[c].batchError
            /\ calls'[c].unlocks = 1
            /\ PostKey(calls[c].post.slug) \notin locks'
            /\ store' = store
            /\ KeysOf(calls[c].post) \cap DOMAIN store' = {}

\* C6: when the atomic batch of a putPost call fails, the call releases
\* the lock, calls back with the store's error unchanged, and the store
\* holds none of the three records of that post: the call has left the
\* store as it was.
C6_FailedBatchLeavesNothing ==
  /\ [] (\A c \in Started :
           /\ BatchFailed(c) => KeysOf(calls[c].post) \cap DOMAIN store = {}
           /\ calls[c].batchError = IOError =>
                /\ ~calls[c].applied
                /\ Done(c) => calls[c].err = IOError /\ calls[c].unlocks = 1)
  /\ [][BatchFailureStep]_vars

\* C6 witness: a call whose batch failed has called back, while another
\* post is in the store
C6_Witness ==
  \E c \in Started :
    /\ Done(c)
    /\ calls[c].batchError = IOError
    /\ calls[c].err = IOError
    /\ DOMAIN store # {}

\* C7 as stated (store failures set aside): a putPost call for a slug
\* whose primary record exists never succeeds and, when no other write of
\* that slug is in flight as it is made, calls back with 'Slug already
\* taken', at the first such attempt and at every later one.
C7_TakenSlugIsReported ==
  \A c \in Started :
    (calls[c].existed /\ Done(c)) =>
      /\ calls[c].err # "null"
      /\ (calls[c].rivals = {} /\ calls[c].err # IOError)
           => calls[c].err = SlugTaken

\* C8 as stated: putPost calls back with 'Conflict' only when another
\* putPost call for the same slug is in flight at that moment.
C8_ConflictMeansRival ==
  \A c \in Started :
    (Done(c) /\ calls[c].err = Conflict) => calls[c].rivals # {}

(***************************************************************************)
(* Properties of the queries                                               *)
(***************************************************************************)

\* the posts stored in the contents st
PostsIn(st) ==
  {st[k] : k \in {j \in DOMAIN st :
                    decode(j)[1] = Str(<<"p", "o", "s", "t", "s">>)}}

\* the values of the date index records in the contents st
DateValuesIn(st) ==
  {st[k] : k \in {j \in DOMAIN st :
                    decode(j)[1] = Str(<<"d", "a", "t", "e">>)}}

\* the posts of P in ascending order of their slugs
RECURSIVE AscendingBySlug(_)
AscendingBySlug(P) ==
  IF P = {} THEN <<>>
  ELSE LET least == CHOOSE p \in P : \A q \in P : StrLeq(p.slug, q.slug)
       IN <<least>> \o AscendingBySlug(P \ {least})

\* <<v.date, v.slug>> is at or after <<w.date, w.slug>>, component by
\* component
AtOrAfter(v, w) ==
  \/ StrLess(w.date, v.date)
  \/ v.date = w.date /\ StrLeq(w.slug, v.slug)

\* the values of V in descending order of <<date, slug>>
RECURSIVE DescendingByDateAndSlug(_)
DescendingByDateAndSlug(V) ==
  IF V = {} THEN <<>>
  ELSE LET greatest == CHOOSE v \in V : \A w \in V : AtOrAfter(v, w)
       IN <<greatest>> \o DescendingByDateAndSlug(V \ {greatest})

QueryDone(kind) ==
  query.kind = kind /\ query.pc = "done" /\ query.err = "null"

\* C9 as stated: postsBy(V) calls back with the full primary records of
\* exactly the posts of author V stored when the index was scanned, each
\* once, in ascending slug order, whatever the order in which the point
\* reads complete.
C9_PostsByAuthorInSlugOrder ==
  QueryDone("postsBy") =>
    query.results =
      AscendingBySlug({p \in PostsIn(query.snapshot) : p.author = query.name})

\* C10 as stated: oldestPosts(N) calls back with min(N, number of stored
\* posts) entries, the date index values with the greatest (date, slug)
\* keys, in descending (date, slug) order.
C10_GreatestDatesDescending ==
  QueryDone("oldestPosts") =>
    LET all == DescendingByDateAndSlug(DateValuesIn(query.snapshot))
        stored == Cardinality(PostsIn(query.snapshot))
        n == IF query.howMany < stored THEN query.howMany ELSE stored
    IN /\ Len(query.results) = n
       /\ query.results = SubSeq(all, 1, n)

\* C11 as stated: oldestPosts(N) calls back with the N oldest posts: no
\* stored post left out of the result has an earlier date than a post of
\* the result.
C11_EarliestDates ==
  QueryDone("oldestPosts") =>
    LET returned == {query.results[i] : i \in DOMAIN query.results}
    IN \A r \in returned :
         \A v \in DateValuesIn(query.snapshot) \ returned :
           ~StrLess(v.date, r.date)

\* C12: every entry oldestPosts calls back with is the value of a date
\* index record of the scanned store and consists of exactly the fields
\* title, date, author and slug of the stored post with that slug, never
\* its text; oldestPosts makes one range scan and no point read: it never
\* enters the fan-out and never has a level.get pending.
C12_ValuesFromTheDateIndex ==
  query.kind = "oldestPosts" =>
    /\ query.pc \in {"streaming", "done"}
    /\ query.pending = {}
    /\ QueryDone("oldestPosts") =>
         \A i \in DOMAIN query.results :
           LET r == query.results[i]
               primary == encode(PostKey(r.slug))
               byDate == encode(DateKey(r.date, r.slug))
           IN /\ DOMAIN r = {"title", "date", "author", "slug"}
              /\ byDate \in DOMAIN query.snapshot
              /\ query.snapshot[byDate] = r
              /\ primary \in DOMAIN query.snapshot
              /\ LET post == query.snapshot[primary]
                 IN /\ "text" \in DOMAIN post
                    /\ r = [title |-> post.title, date |-> post.date,
                            author |-> post.author, slug |-> post.slug]

\* C12 witness: oldestPosts has called back with two entries while a post
\* was put beside it
C12_Witness ==
  /\ QueryDone("oldestPosts")
  /\ Len(query.results) = 2
  /\ \E c \in Started : calls[c].applied

(***************************************************************************)
(* The key encoding on its own                                             *)
(***************************************************************************)

\* number of components of a key handed to keyEncoding
MaxComponents == 2

\* the components the keys are made of: the empty string, a plain one,
\* one ending in a character below the separator, one holding the
\* separator, one that reads like an escape sequence
Components ==
  {<<>>, Str(<<"a">>), Str(<<"a", "-">>), Str(<<"a", "/">>),
   Str(<<"%", "2", "F">>)}

\* the keys of n components
RECURSIVE KeysOfLength(_)
KeysOfLength(n) ==
  IF n = 0 THEN {<<>>}
  ELSE {<<c>> \o k : c \in Components, k \in KeysOfLength(n - 1)}

\* the keys of at most MaxComponents components, the empty key included
Keys == UNION {KeysOfLength(n) : n \in 0..MaxComponents}

\* two keys are about to be written
InitCodec ==
  /\ store = <<>>
  /\ locks = {}
  /\ calls = <<>>
  /\ query = NoQuery
  /\ \E a \in Keys, b \in Keys : codec = [NoCodec EXCEPT !.A = a, !.B = b]

\* the store encodes the keys on their way in
Encode ==
  /\ codec.pc = "idle"
  /\ codec' = [codec EXCEPT !.pc = "encoded",
                            !.encodedA = encode(codec.A),
                            !.encodedB = encode(codec.B)]
  /\ UNCHANGED <<store, locks, calls, query>>

\* the store decodes a key on its way out
Decode ==
  /\ codec.pc = "encoded"
  /\ codec' = [codec EXCEPT !.pc = "decoded",
                            !.decodedA = decode(codec.encodedA)]
  /\ UNCHANGED <<store, locks, calls, query>>

NextCodec == Encode \/ Decode

SpecCodec == InitCodec /\ [][NextCodec]_vars

\* C13 as stated: key codec round trip. For every sequence of string
\* components, the empty sequence, empty components and components with
\* '/' or '%' in them included, decode(encode(components)) equals
\* components.
C13_RoundTrip == codec.pc = "decoded" => codec.decodedA = codec.A

\* of two sequences of strings, a is less than b component by component
SeqLess(a, b) ==
  LET differ == {i \in 1..Len(a) : i <= Len(b) /\ a[i] # b[i]}
  IN IF differ = {}
     THEN Len(a) < Len(b)
     ELSE LET first == CHOOSE i \in differ : \A j \in differ : i <= j
          IN StrLess(a[first], b[first])

\* C14 as stated: key codec order preservation. For all component
\* sequences A and B, encode(A) is less than encode(B) in the store's
\* string order if and only if A is less than B component by component.
C14_OrderPreserved ==
  codec.pc = "encoded" =>
    (StrLess(codec.encodedA, codec.encodedB) <=> SeqLess(codec.A, codec.B))

(***************************************************************************)
(* Properties of the lock                                                  *)
(***************************************************************************)

\* C15: mutual exclusion of the check-then-write section. A call holds
\* the lock on ['posts', slug] from the step in which it is made, so
\* before its existence read is answered, until it calls back; at every
\* moment at most one call per slug is between lock acquisition and the
\* completion of its batch; and no two calls for one slug both see the slug
\* absent and both write.
C15_MutualExclusion ==
  /\ \A c \in Started :
       ~Done(c) => /\ calls[c].acquired
                   /\ PostKey(calls[c].post.slug) \in locks
  /\ \A slug \in Slugs : Cardinality(InFlightOn(slug)) <= 1
  /\ \A c, d \in Started :
       (c # d /\ calls[c].post.slug = calls[d].post.slug)
         => ~(calls[c].batchError = "null" /\ calls[d].batchError = "null")

\* C15 witness: a call has seen its slug absent and has its batch in the
\* store but has not called back yet, and a call made meanwhile for the
\* same slug has been turned away
C15_Witness ==
  \E c, d \in Started :
    /\ calls[c].pc = "batched" /\ calls[c].applied
    /\ c \in calls[d].rivals
    /\ calls[d].post # calls[c].post
    /\ calls[d].err = Conflict

\* C16, as a step: the step in which a call is made while the lock on its
\* slug is held ends with that call called back with 'Conflict', and
\* changes nothing else: not the store, not the lock table, not any other
\* call, not the query under way
ConflictStep ==
  (/\ Len(calls') = Len(calls) + 1
   /\ PostKey(calls'[Len(calls')].post.slug) \in locks)
    => /\ calls'[Len(calls')].pc = "done"
       /\ calls'[Len(calls')].err = Conflict
       /\ SubSeq(calls', 1, Len(calls)) = calls
       /\ locks' = locks
       /\ store' = store
       /\ query' = query

\* C16: a putPost call that finds the lock on its slug held calls back
\* with 'Conflict' in the step in which it is made, without waiting or
\* queuing, and has no other effect: it asks the store nothing, applies
\* no batch, never holds or releases the lock, and leaves the lock table
\* and the progress of the lock's holder as they were.
C16_ConflictHasNoEffect ==
  /\ [] (\A c \in Started :
           /\ ~calls[c].acquired <=> (Done(c) /\ calls[c].err = Conflict)
           /\ ~calls[c].acquired =>
                /\ calls[c].batchError = "none"
                /\ ~calls[c].applied
                /\ calls[c].unlocks = 0)
  /\ [][ConflictStep]_vars

\* C16 witness: the call made last was turned away with 'Conflict' while
\* the holder of the lock waits for its batch, the lock still held
C16_Witness ==
  /\ Len(calls) >= 2
  /\ calls[Len(calls)].err = Conflict
  /\ \E c \in calls[Len(calls)].rivals :
       /\ calls[c].pc = "batch"
       /\ PostKey(calls[c].post.slug) \in locks

(***************************************************************************)
(* Properties of the scan range of postsBy                                 *)
(***************************************************************************)

\* the encoded key k lies in the range postsBy scans for name
InRangeOf(name, k) ==
  /\ StrLeq(encode(PostsByOptions(name).gte), k)
  /\ StrLeq(k, encode(PostsByOptions(name).lte))

\* C17 as stated: for every author name V, the range from
\* encode(['by', V, '']) to encode(['by', V, '~']), both inclusive, holds
\* the author index key of every stored post of V, whatever its slug, and
\* no key of another author nor of the 'posts' or 'date' namespaces.
C17_RangeHoldsTheAuthorsKeys ==
  \A name \in Authors :
    \A k \in DOMAIN store :
      InRangeOf(name, k) <=>
        LET key == decode(k)
        IN Len(key) = 3 /\ key[1] = Str(<<"b", "y">>) /\ key[2] = name

(***************************************************************************)
(* postsBy beside the deletion of posts                                    *)
(***************************************************************************)

\* a post is deleted entirely: its primary record and its two index
\* records leave the store in one atomic batch
DeletePost(slug) ==
  /\ Exists(store, PostKey(slug))
  /\ LET post == store[encode(PostKey(slug))]
     IN store' = [k \in (DOMAIN store) \ KeysOf(post) |-> store[k]]
  /\ UNCHANGED <<locks, calls, query, codec>>

\* postsBy while posts are deleted
NextDeletion ==
  \/ \E name \in Authors : PostsByStart(name)
  \/ StreamError
  \/ PostsByEnd
  \/ \E i \in query.pending, error \in BOOLEAN : GetCallback(i, error)
  \/ \E slug \in Slugs : DeletePost(slug)

SpecDeletion == InitQuery /\ [][NextDeletion]_vars

\* C18, as a step: a step of the fan-out that leaves postsBy without an
\* error has answered one pending read, of a post the store holds, and has
\* put that post at its place in the results
ReadsFoundStep ==
  (query.pc = "fanout" /\ query' # query
                       /\ query'.err \notin {IOError, NotFound})
    => \E i \in query.pending :
         /\ Exists(store, PostKey(query.items[i]))
         /\ query'.pending = query.pending \ {i}
         /\ i \in DOMAIN query'.results
         /\ query'.results[i] = store[encode(PostKey(query.items[i]))]

\* C18: if a point read of the fan-out of postsBy reports not found for a
\* slug the author index scan returned, postsBy calls back with an error;
\* it never calls back with success and a shorter list that leaves that
\* post out: a successful postsBy holds one post for every slug scanned,
\* in the order scanned.
C18_NotFoundIsAnError ==
  /\ [] (QueryDone("postsBy") =>
           /\ DOMAIN query.results = 1..Len(query.items)
           /\ \A i \in 1..Len(query.items) :
                query.results[i].slug = query.items[i])
  /\ [] (query.err = NotFound => query.pc = "done")
  /\ [][ReadsFoundStep]_vars

\* C18 witness: postsBy has called back with the not-found error after
\* another of its reads had found its post
C18_Witness ==
  /\ query.kind = "postsBy"
  /\ query.pc = "done"
  /\ query.err = NotFound
  /\ Len(query.items) >= 2
  /\ DOMAIN query.results # {}

(***************************************************************************)
(* Properties of the queries beside putPost                                *)
(***************************************************************************)

\* C19: in any execution made of putPost, postsBy and oldestPosts calls
\* only, interleaved in any way, postsBy never fails with a not-found
\* error: every slug its index scan returned has a primary record in the
\* store from the scan on, so at the time of the later point read too.
C19_NeverNotFound ==
  /\ query.err # NotFound
  /\ query.kind = "postsBy" =>
       \A i \in 1..Len(query.items) :
         LET primary == encode(PostKey(query.items[i]))
         IN /\ primary \in DOMAIN query.snapshot
            /\ primary \in DOMAIN store
            /\ store[primary] = query.snapshot[primary]

\* C19 witness: postsBy has called back with posts after a putPost call
\* had its batch applied between the scan and the end of the point reads
C19_Witness ==
  /\ QueryDone("postsBy")
  /\ DOMAIN query.results # {}
  /\ query.snapshot # store
  /\ \E c \in Started : calls[c].applied

\* C20, as a step: a step of postsBy or oldestPosts leaves the store, the
\* lock table and every putPost call as they were
QueriesOnlyRead ==
  query' # query => /\ store' = store
                    /\ locks' = locks
                    /\ calls' = calls

\* C20, not blocked: whatever locks are held, the stream of a query under
\* way can end and each of its pending point reads can be answered
QueriesNeverWait ==
  /\ (query.pc = "streaming" /\ query.kind = "postsBy") => ENABLED PostsByEnd
  /\ (query.pc = "streaming" /\ query.kind = "oldestPosts")
       => ENABLED OldestPostsEnd
  /\ query.pc = "fanout" =>
       /\ query.pending # {}
       /\ \A i \in query.pending : ENABLED GetCallback(i, FALSE)

\* C20: postsBy and oldestPosts are read-only and lock-free. They never
\* write or delete a store record and never acquire, test or release a
\* lock; so a putPost call fails with 'Conflict' only because of an
\* earlier putPost call that took the lock of its slug, and no query
\* waits for a lock.
C20_QueriesReadOnlyLockFree ==
  /\ [][QueriesOnlyRead]_vars
  /\ [] QueriesNeverWait
  /\ [] (\A c \in Started :
           calls[c].err = Conflict =>
             \E d \in 1..(c - 1) :
               /\ calls[d].acquired
               /\ calls[d].post.slug = calls[c].post.slug)
  /\ [] (locks \subseteq {PostKey(calls[c].post.slug) : c \in Started})

\* C20 witness: postsBy is in its fan-out, one of its reads answered, while
\* a putPost call made after the scan holds the lock of its slug, its
\* batch in the store
C20_Witness ==
  /\ query.kind = "postsBy"
  /\ query.pc = "fanout"
  /\ DOMAIN query.results # {}
  /\ \E c \in Started :
       /\ calls[c].pc = "batched"
       /\ calls[c].applied
       /\ PostKey(calls[c].post.slug) \in locks
       /\ encode(PostKey(calls[c].post.slug)) \notin DOMAIN query.snapshot

(***************************************************************************)
(* Properties of putPost calls for different slugs                         *)
(***************************************************************************)

\* the calls other than c made for the slug of c
SameSlugAs(c) ==
  {d \in Started \ {c} : calls[d].post.slug = calls[c].post.slug}

\* the encoded keys of the three records of every post
EncodedKeysOf ==
  [post \in Posts |->
     [primary |-> encode(PostKey(post.slug)),
      byAuthor |-> encode(ByKey(post.author, post.slug)),
      byDate |-> encode(DateKey(post.date, post.slug))]]

\* C21: putPost calls for distinct slugs are independent. They lock
\* different keys and write disjoint sets of keys; a call for a slug no
\* other call was made for never calls back with 'Conflict' or 'Slug
\* already taken'; and when the calls made are for pairwise distinct slugs
\* the store holds exactly the records of those whose batch was applied,
\* the same contents whatever the order in which the calls took their
\* steps.
C21_DistinctSlugsIndependent ==
  LET keys == [c \in Started |->
                 LET k == EncodedKeysOf[calls[c].post]
                 IN {k.primary, k.byAuthor, k.byDate}]
      alone == {c \in Started : SameSlugAs(c) = {}}
  IN /\ \A c, d \in Started :
          (c < d /\ calls[c].post.slug # calls[d].post.slug) =>
            /\ PostKey(calls[c].post.slug) # PostKey(calls[d].post.slug)
            /\ keys[c] \cap keys[d] = {}
     /\ \A c \in alone :
          Done(c) =>
            /\ calls[c].acquired
            /\ calls[c].err \notin {Conflict, SlugTaken}
            /\ calls[c].err = "null" <=> calls[c].applied
     /\ alone = Started =>
          LET applied == {c \in Started : calls[c].applied}
          IN /\ DOMAIN store = UNION {keys[c] : c \in applied}
             /\ Cardinality(DOMAIN store) = 3 * Cardinality(applied)
             /\ \A c \in applied :
                  LET post == calls[c].post
                      k == EncodedKeysOf[post]
                  IN /\ store[k.primary] = post
                     /\ store[k.byAuthor] = EmptyString
                     /\ store[k.byDate] = DateValue(post)

\* C21 witness: three calls for three slugs are in flight at once, each
\* holding its lock, two with their batch in the store already
C21_Witness ==
  /\ Len(calls) = 3
  /\ \A c \in Started :
       /\ SameSlugAs(c) = {}
       /\ InFlight(calls[c])
       /\ PostKey(calls[c].post.slug) \in locks
  /\ Cardinality({c \in Started : calls[c].applied}) = 2

(***************************************************************************)
(* Properties of the steps of one putPost call                             *)
(***************************************************************************)

\* C22, as a step: a step that changes the store is the batch of one call
\* that holds the lock of its slug, was told by its existence check that
\* the slug is absent, has applied no batch before, and finds the slug
\* absent still; the step adds the three records of its post and nothing
\* else
OnlyBatchesWrite ==
  store' # store =>
    \E c \in Started :
      /\ calls[c].pc = "batch" /\ calls'[c].pc = "batched"
      /\ ~calls[c].applied /\ calls'[c].applied
      /\ calls[c].acquired
      /\ PostKey(calls[c].post.slug) \in locks
      /\ locks' = locks
      /\ KeysOf(calls[c].post) \cap DOMAIN store = {}
      /\ store' = ApplyOps(store, Batch(calls[c].post))
      /\ DOMAIN store' = (DOMAIN store) \cup KeysOf(calls[c].post)
      /\ \A d \in Started \ {c} : calls'[d] = calls[d]

\* C22: each putPost call applies at most one batch, only while it holds
\* the lock and after its own existence check reported the slug absent;
\* the store is never changed in any other way; and a call that ends with
\* 'Conflict', 'Slug already taken' or an error of the existence check has
\* applied no batch.
C22_OnlyOneBatchUnderLock ==
  /\ [] (\A c \in Started :
           /\ calls[c].applied =>
                /\ calls[c].acquired
                /\ calls[c].pc \in {"batched", "done"}
                /\ calls[c].batchError = "null"
           /\ (Done(c) /\ (\/ calls[c].err \in {Conflict, SlugTaken}
                           \/ calls[c].batchError = "none"))
                => ~calls[c].applied)
  /\ [][OnlyBatchesWrite]_vars

\* C22 witness: one call has applied its batch and called back, a second
\* for the same slug has ended with 'Slug already taken', and a third has
\* ended with an error of its existence check
C22_Witness ==
  \E c, d, e \in Started :
    /\ Succeeded(c) /\ calls[c].applied
    /\ Done(d) /\ calls[d].err = SlugTaken
    /\ Done(e) /\ calls[e].err = IOError /\ calls[e].batchError = "none"

(***************************************************************************)
(* putPost called from the callback of putPost                             *)
(***************************************************************************)

\* the callback of level.batch with callback(error) before unlock(): the
\* putPost the callback makes meets the lock still held
CallbackThenUnlock(c, post) ==
  /\ calls[c].pc = "batched"
  /\ Len(calls) < MaxCalls
  /\ LET finished == [calls EXCEPT ![c] =
           Callback([calls[c] EXCEPT !.unlocks = @ + 1],
                    calls[c].batchError)]
         postKey == PostKey(post.slug)
         got == lock(locks, postKey)
         call == [post |-> post, pc |-> "exists", err |-> "none",
                  acquired |-> got.granted, unlocks |-> 0,
                  callbacks |-> 0,
                  applied |-> FALSE, batchError |-> "none",
                  rivals |-> {d \in 1..Len(finished) :
                                /\ finished[d].post.slug = post.slug
                                /\ InFlight(finished[d])},
                  existed |-> Exists(store, postKey)]
     IN /\ locks' = unlock(got.locks, PostKey(calls[c].post.slug))
        /\ calls' = Append(finished, IF got.granted
                                     THEN call
                                     ELSE Callback(call, Conflict))
  /\ UNCHANGED <<store, query, codec>>

\* the callback of level.batch when the caller's callback makes the next
\* putPost call, as the series of putAndQueryData does: unlock(), then
\* callback(error), in which putPost(level, post, ...) runs up to its
\* first asynchronous request
UnlockThenCallback(c, post) ==
  /\ calls[c].pc = "batched"
  /\ Len(calls) < MaxCalls
  /\ LET freed == unlock(locks, PostKey(calls[c].post.slug))
         finished == [calls EXCEPT ![c] =
           Callback([calls[c] EXCEPT !.unlocks = @ + 1],
                    calls[c].batchError)]
         postKey == PostKey(post.slug)
         got == lock(freed, postKey)
         call == [post |-> post, pc |-> "exists", err |-> "none",
                  acquired |-> got.granted, unlocks |-> 0,
                  callbacks |-> 0,
                  applied |-> FALSE, batchError |-> "none",
                  rivals |-> {d \in 1..Len(finished) :
                                /\ finished[d].post.slug = post.slug
                                /\ InFlight(finished[d])},
                  existed |-> Exists(store, postKey)]
     IN /\ locks' = got.locks
        /\ calls' = Append(finished, IF got.granted
                                     THEN call
                                     ELSE Callback(call, Conflict))
  /\ UNCHANGED <<store, query, codec>>

\* the write path with callbacks that make the next call
NextSeries ==
  \/ \E post \in PutPosts : PutPostStart(post)
  \/ \E c \in 1..Len(calls), error \in BOOLEAN : ExistsCallback(c, error)
  \/ \E c \in 1..Len(calls), ok \in BOOLEAN : BatchApply(c, ok)
  \/ \E c \in 1..Len(calls) : BatchCallback(c)
  \/ \E c \in 1..Len(calls), post \in PutPosts : UnlockThenCallback(c, post)

SpecSeries == Init /\ [][NextSeries]_vars

\* C23, as a step: the step in which the batch callback of call c runs
\* counts one unlock for c; when the caller's callback makes no call the
\* lock of the slug is free afterwards, and when it makes a call for the
\* same slug that call gets the lock: it is not turned away with
\* 'Conflict', has no rival, and finds the slug taken exactly when the
\* batch of c was applied
LockFreeInCallback ==
  \A c \in Started :
    (calls[c].pc = "batched" /\ calls'[c].pc = "done") =>
      /\ calls'[c].unlocks = 1
      /\ calls'[c].err = calls[c].batchError
      /\ Len(calls') = Len(calls)
           => PostKey(calls[c].post.slug) \notin locks'
      /\ Len(calls') = Len(calls) + 1 =>
           LET made == calls'[Len(calls')]
           IN IF made.post.slug = calls[c].post.slug
              THEN /\ made.acquired
                   /\ made.pc = "exists"
                   /\ made.err # Conflict
                   /\ made.rivals = {}
                   /\ made.existed <=> calls[c].applied
                   /\ PostKey(made.post.slug) \in locks'
              ELSE PostKey(calls[c].post.slug) \notin locks'

\* C23, the end of the call made in the callback: a call that got the
\* lock on a slug that had a record ends with 'Slug already taken', or
\* with the error of its existence check
TakenSlugStep ==
  \A c \in Started :
    (calls[c].pc = "exists" /\ calls'[c].pc = "done" /\ calls[c].existed)
      => calls'[c].err \in {SlugTaken, IOError}

\* C23: on the batch path putPost releases the lock before it calls the
\* caller's callback, after a batch that succeeded and after one that
\* failed: when the callback runs the lock on the slug is free, so a
\* putPost call for the same slug made from inside the callback is not
\* turned away with 'Conflict'; after a success it ends with 'Slug already
\* taken'.
C23_UnlockBeforeCallback ==
  /\ [][LockFreeInCallback]_vars
  /\ [][TakenSlugStep]_vars
  /\ [] (\A c \in Started :
           (Done(c) /\ calls[c].batchError # "none") => calls[c].unlocks = 1)

\* C23 witness: the callback of a call whose batch succeeded and the
\* callback of a call whose batch failed have each made a call for the
\* same slug; the first of these has ended with 'Slug already taken', the
\* second holds the lock
C23_Witness ==
  \E c, d, e \in Started :
    /\ calls[c].batchError = IOError /\ Done(c)
    /\ d > c /\ calls[d].post.slug = calls[c].post.slug
    /\ Succeeded(d)
    /\ e > d /\ calls[e].post.slug = calls[d].post.slug
    /\ calls[e].post # calls[d].post
    /\ calls[e].acquired /\ calls[e].existed /\ calls[e].rivals = {}
    /\ calls[e].err = SlugTaken

(***************************************************************************)
(* The order of the puts of the batch                                      *)
(***************************************************************************)

\* number of putPost calls of one run on the order of the puts
MaxOrderCalls == 1

\* the strings the posts of these runs are made of: the empty one, one
\* with the separator, and the name of a namespace
OrderStrings == {<<>>, Str(<<"a", "/">>), Str(<<"b", "y">>)}

\* posts of every author, date and slug made of these strings
OrderPosts ==
  {[title |-> "Title", date |-> d, author |-> a, slug |-> s,
    text |-> "Text"] : d \in OrderStrings, a \in OrderStrings,
                       s \in OrderStrings}

\* var batch = [ ... ] of the older putPost: the primary record first, and
\* the empty placeholder as the value of both index records
BatchPrimaryFirst(post) ==
  << [type |-> "put", key |-> PostKey(post.slug), value |-> post],
     [type |-> "put", key |-> ByKey(post.author, post.slug),
      value |-> EmptyString],
     [type |-> "put", key |-> DateKey(post.date, post.slug),
      value |-> EmptyString] >>

\* the store carries out level.batch of the older putPost
BatchApplyPrimaryFirst(c, ok) ==
  /\ calls[c].pc = "batch"
  /\ store' = ApplyBatch(store, BatchPrimaryFirst(calls[c].post), ok)
  /\ calls' = [calls EXCEPT ![c].pc = "batched",
                            ![c].applied = ok,
                            ![c].batchError = IF ok THEN "null" ELSE IOError]
  /\ UNCHANGED <<locks, query, codec>>

\* a putPost call of these runs
OrderPutStart(post) == Len(calls) < MaxOrderCalls /\ PutPostStart(post)

\* putPost with either batch
NextOrder ==
  \/ \E post \in OrderPosts : OrderPutStart(post)
  \/ \E c \in 1..Len(calls), error \in BOOLEAN : ExistsCallback(c, error)
  \/ \E c \in 1..Len(calls), ok \in BOOLEAN : BatchApply(c, ok)
  \/ \E c \in 1..Len(calls), ok \in BOOLEAN : BatchApplyPrimaryFirst(c, ok)
  \/ \E c \in 1..Len(calls) : BatchCallback(c)

SpecOrder == Init /\ [][NextOrder]_vars

\* the six orders of three operations
Orders ==
  {<<1, 2, 3>>, <<1, 3, 2>>, <<2, 1, 3>>, <<2, 3, 1>>, <<3, 1, 2>>,
   <<3, 2, 1>>}

\* the operations ops in the order o
InOrder(ops, o) == <<ops[o[1]], ops[o[2]], ops[o[3]]>>

\* call c has its batch applied in this step
BatchIsApplied(c) ==
  calls[c].pc = "batch" /\ calls'[c].pc = "batched" /\ calls'[c].applied

\* C24 as stated: the batch with the primary record last, of
\* Simple-Index.md, and the batch with the primary record first, of
\* print-table.js, leave the store in the same state.
C24_SameStoreFromEitherBatch ==
  [][\A c \in Started :
       BatchIsApplied(c) =>
         ApplyOps(store, Batch(calls[c].post))
           = ApplyOps(store, BatchPrimaryFirst(calls[c].post))]_vars

\* C24, as a step: in the step that applies a batch, the three keys are
\* pairwise distinct and absent from the store, the puts of the batch
\* applied in any of the six orders leave the store the batch left, and
\* the batch of the other source would have left the same keys and the
\* same values at all of them but the date index key
AnyOrderStep ==
  \A c \in Started :
    BatchIsApplied(c) =>
      LET post == calls[c].post
          byDate == encode(DateKey(post.date, post.slug))
          last == ApplyOps(store, Batch(post))
          first == ApplyOps(store, BatchPrimaryFirst(post))
      IN /\ Cardinality(KeysOf(post)) = 3
         /\ KeysOf(post) \cap DOMAIN store = {}
         /\ store' \in {last, first}
         /\ \A o \in Orders :
              /\ ApplyOps(store, InOrder(Batch(post), o)) = last
              /\ ApplyOps(store, InOrder(BatchPrimaryFirst(post), o)) = first
         /\ DOMAIN first = DOMAIN last
         /\ DOMAIN last = (DOMAIN store) \cup KeysOf(post)
         /\ \A k \in (DOMAIN last) \ {byDate} : first[k] = last[k]
         /\ last[byDate] = DateValue(post)
         /\ first[byDate] = EmptyString

\* C24 as amended: the order of the three puts inside a batch is
\* immaterial, the three keys being pairwise distinct for every author,
\* date and slug; the two sources differ in the value of the date index
\* record only.
C24_OrderImmaterial == [][AnyOrderStep]_vars

\* C24 witness: a batch is in the store for a post whose author and date
\* are the same string, the name of the author index namespace, and whose
\* slug holds the separator
C24_Witness ==
  \E c \in Started :
    /\ calls[c].applied
    /\ calls[c].post.author = Str(<<"b", "y">>)
    /\ calls[c].post.date = calls[c].post.author
    /\ calls[c].post.slug = Str(<<"a", "/">>)
    /\ Cardinality(DOMAIN store) = 3

(***************************************************************************)
(* Every request answered: putPost calls back                              *)
(***************************************************************************)

\* the store answers the request call c waits for, and the callback of
\* that request runs
StoreAnswers(c) ==
  /\ c \in 1..Len(calls)
  /\ \/ \E error \in BOOLEAN : ExistsCallback(c, error)
     \/ \E ok \in BOOLEAN : BatchApply(c, ok)
     \/ BatchCallback(c)

\* number of putPost calls of one run with such a store
MaxLiveCalls == 2

\* a putPost call of these runs
LivePutStart(post) == Len(calls) < MaxLiveCalls /\ PutPostStart(post)

NextLive ==
  \/ \E post \in PutPosts : LivePutStart(post)
  \/ \E c \in 1..Len(calls), error \in BOOLEAN : ExistsCallback(c, error)
  \/ \E c \in 1..Len(calls), ok \in BOOLEAN : BatchApply(c, ok)
  \/ \E c \in 1..Len(calls) : BatchCallback(c)

\* the write path with a store that answers every request
SpecLive ==
  /\ Init
  /\ [][NextLive]_vars
  /\ \A c \in 1..MaxLiveCalls : WF_vars(StoreAnswers(c))

\* C25, never twice: a call whose callback has run takes no further step
CalledBackIsOver ==
  \A c \in Started : calls[c].callbacks > 0 => calls'[c] = calls[c]

\* C25: every putPost call invokes its callback exactly once on each of
\* its paths ('Conflict', error of the existence check, 'Slug already
\* taken', batch applied, batch failed): never twice, and, the store
\* answering each exists and batch request, never zero times.
C25_CallbackExactlyOnce ==
  /\ [] (\A c \in Started :
           /\ calls[c].callbacks \in {0, 1}
           /\ calls[c].callbacks = 1 <=> Done(c)
           /\ calls[c].callbacks = 1 <=> calls[c].err # "none")
  /\ [][CalledBackIsOver]_vars
  /\ \A c \in 1..MaxLiveCalls :
       [] (Len(calls) >= c =>
             <> (Len(calls) >= c /\ calls[c].callbacks = 1))

\* C25 witness: a call has called back once with 'Conflict', and the
\* call that held the lock once with the error of its failed batch
C25_Witness ==
  \E c, d \in Started :
    /\ calls[d].err = Conflict /\ calls[d].callbacks = 1
    /\ c \in calls[d].rivals
    /\ calls[c].err = IOError /\ calls[c].batchError = IOError
    /\ calls[c].callbacks = 1

====
